---- MODULE Spec2Model ----
(***************************************************************************)
(* One run of the solar production notifier, in its three revisions that   *)
(* send the one-line status text:                                          *)
(*   "shifted"  - src/solar-monitor.js   (SQLite, Mountain Time day totals)*)
(*   "trailing" - src/unnamed/part_000   (SQLite, last 24 hours)           *)
(*   "json"     - src/unnamed/part_001   (production.json)                 *)
(* Instants are whole hours since the epoch. An ISO-8601 string is the     *)
(* pair <<date, hour of day>>; strings are compared as SQLite and          *)
(* Array.prototype.sort compare them: lexicographically. kWh values are    *)
(* integers.                                                               *)
(***************************************************************************)
EXTENDS Integers, Sequences, FiniteSets

VARIABLES
    variant,        \* which revision of the script is running
    pc,             \* position of the main routine
    db,             \* sunrun.sqlite3: [file, rows]
    metric,         \* production.json: [file, yesterdayTotalKwh]
    now,            \* the instant read by new Date() in getProductionData
    dailyMap,       \* the per-date totals built by getProductionData
    productionData, \* what getProductionData / readJsonIfExists returned
    message,        \* the message built in the try block
    attempts,       \* the sendSMS calls so far: <<[msg, ok]>>
    threw,          \* what threw before the send: "none", "extractor", "retrieval"
    configFile,     \* data.hcl / config.json: "present" or "deleted"
    unlinks         \* number of fs.unlinkSync(CONFIG_FILE) calls

vars == <<variant, pc, db, metric, now, dailyMap, productionData, message,
          attempts, threw, configFile, unlinks>>

----------------------------------------------------------------------------
(* Bounds of the model *)

MaxDay == 2
MaxRows == 2
MaxOffset == 1

(* Program constants *)

ShiftHours == 7
WindowHours == 24
DayHours == 24

----------------------------------------------------------------------------
(* Values *)

\* a JavaScript value that is null/undefined or a number
Null == [isNull |-> TRUE, num |-> 0]
Num(v) == [isNull |-> FALSE, num |-> v]

\* Date.prototype.toISOString: "<date>T<time>Z"
toISOString(t) == <<t \div DayHours, t % DayHours>>

\* new Date(isoString).getTime()
parseDate(s) == s[1] * DayHours + s[2]

\* string comparison of two ISO strings: a <= b
StrLeq(a, b) == a[1] < b[1] \/ (a[1] = b[1] /\ a[2] <= b[2])

\* a negative number taken as 0 as well
OrZero_clamped(x) == IF x.isNull \/ x.num <= 0 THEN 0 ELSE x.num

\* x || 0
OrZero(x) == IF x.isNull \/ x.num = 0 THEN 0 ELSE x.num

\* truthiness of a nullable number: null, undefined and 0 are falsy
Truthy(x) == ~x.isNull /\ x.num # 0

----------------------------------------------------------------------------
(* The stores the extractor may leave behind *)

Hours == {0, ShiftHours - 1, ShiftHours, DayHours - 1}
Times == {d * DayHours + h : d \in 1..MaxDay, h \in Hours}
SolarValues == {Null, Num(-1), Num(0), Num(2)}
RowTypes == [timestamp : {toISOString(t) : t \in Times}, solar : SolarValues]

\* the position of a row in the table's storage order
RowKey(r) ==
    parseDate(r.timestamp) * 5 + (IF r.solar.isNull THEN 0 ELSE r.solar.num + 2)

\* every table of at most n rows, each once (rows in storage order)
RECURSIVE Tables(_)
Tables(n) ==
    IF n = 0 THEN {<<>>}
    ELSE LET prev == Tables(n - 1)
         IN prev \cup {Append(s, r) : s \in {q \in prev : Len(q) = n - 1},
                                      r \in RowTypes}

SortedTables ==
    {s \in Tables(MaxRows) :
        \A i \in 1..(Len(s) - 1) : RowKey(s[i]) <= RowKey(s[i + 1])}

DBFiles == {"absent", "unreadable", "notable"}
DBs == [file : DBFiles, rows : {<<>>}] \cup [file : {"ok"}, rows : SortedTables]
NoDB == [file |-> "absent", rows |-> <<>>]

MetricFiles ==
    [file : {"absent", "invalid"}, yesterdayTotalKwh : {Null}]
        \cup [file : {"ok"}, yesterdayTotalKwh : {Null, Num(0), Num(2)}]
NoMetric == [file |-> "absent", yesterdayTotalKwh |-> Null]

Nows == {MaxDay * DayHours + h : h \in {ShiftHours - 1, ShiftHours}}
Variants == {"shifted", "trailing", "json"}

----------------------------------------------------------------------------
(* getProductionData *)

\* the lower end of the window left out
InWindow_exclusive(ts, n) ==
    /\ ~StrLeq(ts, toISOString(n - WindowHours))
    /\ StrLeq(ts, toISOString(n))

\* WHERE timestamp >= ? AND timestamp <= ?, bound to the two ISO strings
InWindow(ts, n) ==
    /\ StrLeq(toISOString(n - WindowHours), ts)
    /\ StrLeq(ts, toISOString(n))

\* the rows of the last-24-hours query
recentRecords(rows, n) == SelectSeq(rows, LAMBDA r : InWindow(r.timestamp, n))

\* recentRecords.forEach((row) => { totalSolar += row.solar || 0; })
RECURSIVE totalSolar(_)
totalSolar(recs) ==
    IF recs = <<>> THEN 0
    ELSE OrZero(Head(recs).solar) + totalSolar(Tail(recs))

\* the UTC date, with no shift to Mountain Time
getMountainTimeDate_utc(utcTimestamp) == utcTimestamp[1]

\* the Mountain Time date string of a UTC timestamp
getMountainTimeDate(utcTimestamp) ==
    toISOString(parseDate(utcTimestamp) - ShiftHours)[1]

\* the rows grouped under one Mountain Time date
RowsOfDate(rows, d) ==
    SelectSeq(rows, LAMBDA r : getMountainTimeDate(r.timestamp) = d)

\* dailyMap after the forEach over allRecordsRaw
BuildDailyMap(rows) ==
    LET dates == {getMountainTimeDate(rows[i].timestamp) : i \in DOMAIN rows}
    IN [d \in dates |->
            [total |-> totalSolar(RowsOfDate(rows, d)),
             readings |-> Len(RowsOfDate(rows, d))]]

\* the keys in ascending order: the reverse() left out
RECURSIVE SortReverse_ascending(_)
SortReverse_ascending(keys) ==
    IF keys = {} THEN <<>>
    ELSE LET m == CHOOSE x \in keys : \A y \in keys : x <= y
         IN <<m>> \o SortReverse_ascending(keys \ {m})

\* Object.keys(dailyMap).sort().reverse()
RECURSIVE SortReverse(_)
SortReverse(keys) ==
    IF keys = {} THEN <<>>
    ELSE LET m == CHOOSE x \in keys : \A y \in keys : y <= x
         IN <<m>> \o SortReverse(keys \ {m})

\* any nonzero total passes
HasProduction_nonzero(entry) == entry.total # 0

\* the test of sortedDates.find: (dailyMap[d].total || 0) > 0
HasProduction(entry) == entry.total > 0

\* sortedDates.find(...): the first date that passes, or undefined
RECURSIVE Find(_, _)
Find(sortedDates, map) ==
    IF sortedDates = <<>> THEN Null
    ELSE IF HasProduction(map[Head(sortedDates)]) THEN Num(Head(sortedDates))
    ELSE Find(Tail(sortedDates), map)

NullData ==
    [isNull |-> TRUE, recordsCount |-> Null, yesterdayTotalKwh |-> Null,
     mostRecentDayTotal |-> Null, mostRecentDayDate |-> Null]

\* the object returned by solar-monitor.js
ShiftedResult(rows, n) ==
    LET map == BuildDailyMap(rows)
        mostRecentDate == Find(SortReverse(DOMAIN map), map)
    IN [isNull |-> FALSE,
        recordsCount |-> Num(Len(recentRecords(rows, n))),
        yesterdayTotalKwh |-> Null,
        mostRecentDayTotal |->
            IF mostRecentDate.isNull THEN Null
            ELSE Num(map[mostRecentDate.num].total),
        mostRecentDayDate |-> mostRecentDate]

\* the object returned by the last-24-hours revision
TrailingResult(rows, n) ==
    [isNull |-> FALSE,
     recordsCount |-> Num(Len(recentRecords(rows, n))),
     yesterdayTotalKwh |-> Num(totalSolar(recentRecords(rows, n))),
     mostRecentDayTotal |-> Null,
     mostRecentDayDate |-> Null]

\* new Database(DB_FILE) and db.prepare(...) throw on a file that cannot be
\* opened or that has no table "solar"; nothing in the function catches
QueryThrows(d) == d.file \in {"unreadable", "notable"}

\* the file taken as parsed whatever its state
readJsonIfExists_unchecked(m) ==
    [isNull |-> FALSE, recordsCount |-> Null,
     yesterdayTotalKwh |-> m.yesterdayTotalKwh,
     mostRecentDayTotal |-> Null, mostRecentDayDate |-> Null]

\* readJsonIfExists(METRIC_FILE)
readJsonIfExists(m) ==
    IF m.file # "ok" THEN NullData
    ELSE [NullData EXCEPT !.isNull = FALSE,
                          !.yesterdayTotalKwh = m.yesterdayTotalKwh]

----------------------------------------------------------------------------
(* main *)

FailureMessage ==
    [text |-> "Failed to get solar production data",
     date |-> Null, total |-> Null, readings |-> Null]

\* let message;  (not yet assigned)
NoMessage ==
    [text |-> "undefined", date |-> Null, total |-> Null, readings |-> Null]

\* any object returned is reported, whatever its total
ShiftedMessage_anyTotal(pd) ==
    IF ~pd.isNull
    THEN [text |-> "Solar production (<date>): <total> kWh",
          date |-> pd.mostRecentDayDate, total |-> pd.mostRecentDayTotal,
          readings |-> Null]
    ELSE [text |-> "Failed to get solar production data",
          date |-> Null, total |-> Null, readings |-> Null]

\* `Solar production (${mostRecentDayDate}): ${total.toFixed(2)} kWh`
ShiftedMessage(pd) ==
    IF ~pd.isNull /\ Truthy(pd.mostRecentDayTotal)
    THEN [text |-> "Solar production (<date>): <total> kWh",
          date |-> pd.mostRecentDayDate, total |-> pd.mostRecentDayTotal,
          readings |-> Null]
    ELSE FailureMessage

\* the test on recordsCount left out
TrailingMessage_anyCount(pd) ==
    IF ~pd.isNull /\ ~pd.yesterdayTotalKwh.isNull
    THEN [text |-> "Solar production (last 24h): <total> kWh (<n> readings)",
          date |-> Null, total |-> pd.yesterdayTotalKwh,
          readings |-> pd.recordsCount]
    ELSE [text |-> "Failed to get solar production data",
          date |-> Null, total |-> Null, readings |-> Null]

\* `Solar production (last 24h): ${total.toFixed(2)} kWh (${n} readings)`
TrailingMessage(pd) ==
    IF ~pd.isNull /\ ~pd.yesterdayTotalKwh.isNull /\ pd.recordsCount.num > 0
    THEN [text |-> "Solar production (last 24h): <total> kWh (<n> readings)",
          date |-> Null, total |-> pd.yesterdayTotalKwh,
          readings |-> pd.recordsCount]
    ELSE FailureMessage

\* `Solar production yesterday was ${yesterdayTotalKwh} kWh`
JsonMessage(pd) ==
    IF ~pd.isNull /\ ~pd.yesterdayTotalKwh.isNull
    THEN [text |-> "Solar production yesterday was <total> kWh",
          date |-> Null, total |-> pd.yesterdayTotalKwh, readings |-> Null]
    ELSE FailureMessage

\* the message sent from the catch block
CatchMessage == FailureMessage

\* no catch block: an exception goes straight to the cleanup
OnThrow_noCatch == "finally"

\* where control goes when a statement of the try block throws
OnThrow == "catch"

\* where control goes after sendSMS in the try block
AfterSend(ok) == IF ok THEN "finally" ELSE OnThrow

\* the cleanup written after the try block instead of in a finally
AfterCatchSend_noFinally(ok) == "done"

\* the inner try { await sendSMS(...) } catch {} swallows a failed send
AfterCatchSend(ok) == "finally"

EmptyMap == [d \in {} |-> 0]

Init ==
    /\ variant \in Variants
    /\ now \in Nows
    /\ pc = "runExtractor"
    /\ db = NoDB
    /\ metric = NoMetric
    /\ dailyMap = EmptyMap
    /\ productionData = NullData
    /\ message = NoMessage
    /\ attempts = <<>>
    /\ threw = "none"
    /\ configFile = "present"
    /\ unlinks = 0

\* runExtractor(): execSync throws on a non-zero exit; otherwise the
\* extractor has left some store behind
RunExtractor ==
    /\ pc = "runExtractor"
    /\ \E ok \in BOOLEAN :
        IF ok
        THEN /\ pc' = "getData"
             /\ IF variant = "json"
                THEN /\ metric' \in MetricFiles
                     /\ db' = db
                ELSE /\ db' \in DBs
                     /\ metric' = metric
             /\ threw' = threw
        ELSE /\ pc' = OnThrow
             /\ threw' = "extractor"
             /\ UNCHANGED <<db, metric>>
    /\ UNCHANGED <<variant, now, dailyMap, productionData, message, attempts,
                   configFile, unlinks>>

\* const productionData = getProductionData();  (the SQLite revisions)
GetProductionData ==
    /\ pc = "getData"
    /\ variant \in {"shifted", "trailing"}
    /\ IF db.file = "absent"
       THEN /\ productionData' = NullData
            /\ pc' = "format"
            /\ UNCHANGED <<dailyMap, threw>>
       ELSE IF QueryThrows(db)
       THEN /\ pc' = OnThrow
            /\ threw' = "retrieval"
            /\ UNCHANGED <<dailyMap, productionData>>
       ELSE /\ dailyMap' = IF variant = "shifted" THEN BuildDailyMap(db.rows)
                           ELSE dailyMap
            /\ productionData' = IF variant = "shifted"
                                 THEN ShiftedResult(db.rows, now)
                                 ELSE TrailingResult(db.rows, now)
            /\ pc' = "format"
            /\ threw' = threw
    /\ UNCHANGED <<variant, db, metric, now, message, attempts, configFile,
                   unlinks>>

\* const productionData = readJsonIfExists(METRIC_FILE);  (the JSON revision)
ReadMetricFile ==
    /\ pc = "getData"
    /\ variant = "json"
    /\ productionData' = readJsonIfExists(metric)
    /\ pc' = "format"
    /\ UNCHANGED <<variant, db, metric, now, dailyMap, message, attempts,
                   threw, configFile, unlinks>>

\* let message; if (...) { message = ... } else { message = 'Failed ...' }
BuildMessage ==
    /\ pc = "format"
    /\ message' = CASE variant = "shifted" -> ShiftedMessage(productionData)
                    [] variant = "trailing" -> TrailingMessage(productionData)
                    [] OTHER -> JsonMessage(productionData)
    /\ pc' = "send"
    /\ UNCHANGED <<variant, db, metric, now, dailyMap, productionData,
                   attempts, threw, configFile, unlinks>>

\* await sendSMS(message): sendMail delivers, or rejects
SendSMS ==
    /\ pc = "send"
    /\ \E ok \in BOOLEAN :
        /\ attempts' = Append(attempts, [msg |-> message, ok |-> ok])
        /\ pc' = AfterSend(ok)
    /\ UNCHANGED <<variant, db, metric, now, dailyMap, productionData,
                   message, threw, configFile, unlinks>>

\* catch (err) { try { await sendSMS('Failed ...') } catch {} }
CatchSend ==
    /\ pc = "catch"
    /\ \E ok \in BOOLEAN :
        /\ attempts' = Append(attempts, [msg |-> CatchMessage, ok |-> ok])
        /\ pc' = AfterCatchSend(ok)
    /\ UNCHANGED <<variant, db, metric, now, dailyMap, productionData,
                   message, threw, configFile, unlinks>>

\* finally { try { fs.unlinkSync(CONFIG_FILE) } catch {} }
Cleanup ==
    /\ pc = "finally"
    /\ \E ok \in BOOLEAN :
        configFile' = IF ok THEN "deleted" ELSE configFile
    /\ unlinks' = unlinks + 1
    /\ pc' = "done"
    /\ UNCHANGED <<variant, db, metric, now, dailyMap, productionData,
                   message, attempts, threw>>

Next ==
    \/ RunExtractor
    \/ GetProductionData
    \/ ReadMetricFile
    \/ BuildMessage
    \/ SendSMS
    \/ CatchSend
    \/ Cleanup

Spec == Init /\ [][Next]_vars

----------------------------------------------------------------------------
(* What the claims speak of, stated from the readings themselves *)

\* the instant of reading i, in hours
InstantOf(i) == db.rows[i].timestamp[1] * DayHours + db.rows[i].timestamp[2]

\* the value of reading i; a reading without a value has none to add
ValueOf(i) == IF db.rows[i].solar.isNull THEN 0 ELSE db.rows[i].solar.num

\* the value of reading i with null and negative values taken as 0
ClampedValueOf(i) == IF ValueOf(i) < 0 THEN 0 ELSE ValueOf(i)

RECURSIVE SumValues(_)
SumValues(I) ==
    IF I = {} THEN 0
    ELSE LET i == CHOOSE x \in I : TRUE IN ValueOf(i) + SumValues(I \ {i})

RECURSIVE SumClamped(_)
SumClamped(I) ==
    IF I = {} THEN 0
    ELSE LET i == CHOOSE x \in I : TRUE
         IN ClampedValueOf(i) + SumClamped(I \ {i})

\* the readings of the trailing 24 hours, both ends included
Trailing24 ==
    {i \in DOMAIN db.rows : now - 24 <= InstantOf(i) /\ InstantOf(i) <= now}

\* the local date of reading i: before 07:00 UTC the previous UTC date
LocalDateOf(i) ==
    IF InstantOf(i) % 24 < 7 THEN (InstantOf(i) \div 24) - 1
    ELSE InstantOf(i) \div 24

ReadingsOn(d) == {i \in DOMAIN db.rows : LocalDateOf(i) = d}
LocalDates == {LocalDateOf(i) : i \in DOMAIN db.rows}

\* the data step of a SQLite revision has returned an object
Queried(v) == pc = "format" /\ variant = v /\ db.file = "ok"

----------------------------------------------------------------------------
C9_GroupedByShiftedDate ==
    Queried("shifted") =>
        /\ DOMAIN dailyMap = LocalDates
        /\ \A d \in LocalDates :
            dailyMap[d].readings = Cardinality(ReadingsOn(d))

\* a reading before 07:00 UTC sits under the previous date, one at 07:00
\* of the same UTC date under its own
C9_Witness ==
    /\ Queried("shifted")
    /\ \E i, j \in DOMAIN db.rows :
        /\ InstantOf(i) \div 24 = InstantOf(j) \div 24
        /\ InstantOf(i) % 24 < 7 /\ InstantOf(j) % 24 >= 7
        /\ dailyMap[(InstantOf(i) \div 24) - 1].readings = 1
        /\ dailyMap[InstantOf(j) \div 24].readings = 1

(* C4 (as claimed): a reading whose value is null, missing or negative     *)
(* adds exactly 0 to the total and is still counted as one reading.        *)
C4_NullAndNegativeAddZero ==
    /\ Queried("trailing") =>
        /\ productionData.yesterdayTotalKwh = Num(SumClamped(Trailing24))
        /\ productionData.recordsCount = Num(Cardinality(Trailing24))
    /\ Queried("shifted") =>
        \A d \in LocalDates :
            /\ dailyMap[d].total = SumClamped(ReadingsOn(d))
            /\ dailyMap[d].readings = Cardinality(ReadingsOn(d))

(* C4 (amended): a reading whose value is null or missing adds exactly 0   *)
(* and is still counted as one reading; a negative value is added as it    *)
(* is, so it lowers the total, and its reading is counted too.             *)
C4_NullAddsZeroNegativeKept ==
    /\ Queried("trailing") =>
        /\ productionData.yesterdayTotalKwh = Num(SumValues(Trailing24))
        /\ productionData.recordsCount = Num(Cardinality(Trailing24))
    /\ Queried("shifted") =>
        \A d \in LocalDates :
            /\ dailyMap[d].total = SumValues(ReadingsOn(d))
            /\ dailyMap[d].readings = Cardinality(ReadingsOn(d))

\* one date holds a null reading and a negative one: two readings, total -1
C4_Witness ==
    /\ Queried("shifted")
    /\ \E i, j \in DOMAIN db.rows :
        /\ db.rows[i].solar.isNull
        /\ ValueOf(j) < 0
        /\ LocalDateOf(i) = LocalDateOf(j)
        /\ dailyMap[LocalDateOf(i)].readings = 2
        /\ dailyMap[LocalDateOf(i)].total = ValueOf(j)

----------------------------------------------------------------------------
\* the message has been built from an object the data step returned
Formatted(v) == pc = "send" /\ variant = v /\ db.file = "ok"

(* C7 (as claimed): every result is consistent with one single window: its *)
(* total is the sum of the readings in the window its label names, its     *)
(* count is the number of readings in that same window, and it is empty    *)
(* (reported as a failure) exactly when that count is 0.                   *)
C7_OneWindowPerResult ==
    /\ Formatted("trailing") =>
        /\ productionData.yesterdayTotalKwh = Num(SumValues(Trailing24))
        /\ productionData.recordsCount = Num(Cardinality(Trailing24))
        /\ message = FailureMessage <=> productionData.recordsCount = Num(0)
    /\ Formatted("shifted") =>
        /\ ~productionData.mostRecentDayDate.isNull =>
            LET d == productionData.mostRecentDayDate.num
            IN /\ productionData.mostRecentDayTotal = Num(SumValues(ReadingsOn(d)))
               /\ productionData.recordsCount = Num(Cardinality(ReadingsOn(d)))
        /\ message = FailureMessage <=> productionData.recordsCount = Num(0)

(* C7 (amended): in TrailingHours mode total and count are those of the    *)
(* one 24-hour window and the result is reported as a failure exactly when *)
(* the count is 0. In CalendarDayShifted mode the total is the sum of the  *)
(* readings of the reported date, whose number dailyMap holds, while       *)
(* recordsCount is the number of readings of the trailing 24 hours, and    *)
(* the result is reported as a failure exactly when no date has a positive *)
(* total.                                                                  *)
C7_WindowPerField ==
    /\ Formatted("trailing") =>
        /\ productionData.yesterdayTotalKwh = Num(SumValues(Trailing24))
        /\ productionData.recordsCount = Num(Cardinality(Trailing24))
        /\ message = FailureMessage <=> productionData.recordsCount = Num(0)
    /\ Formatted("shifted") =>
        /\ ~productionData.mostRecentDayDate.isNull =>
            LET d == productionData.mostRecentDayDate.num
            IN /\ productionData.mostRecentDayTotal = Num(SumValues(ReadingsOn(d)))
               /\ dailyMap[d].readings = Cardinality(ReadingsOn(d))
        /\ productionData.recordsCount = Num(Cardinality(Trailing24))
        /\ message = FailureMessage <=>
            \A d \in LocalDates : SumValues(ReadingsOn(d)) <= 0

\* a total is reported for a date outside the trailing 24 hours while the
\* count of the result is 0
C7_Witness ==
    /\ Formatted("shifted")
    /\ productionData.recordsCount = Num(0)
    /\ productionData.mostRecentDayTotal = Num(2)
    /\ message # FailureMessage

----------------------------------------------------------------------------
(* CalendarDayShifted: the date asked for *)

OffsetDays == 0..MaxOffset

\* today's local date at the reference instant
ShiftedToday == (now - 7) \div 24

\* the requested local date: offsetDays back from the shifted today
RequestedDate(off) == ShiftedToday - off

DateTotal(d) == SumValues(ReadingsOn(d))
PositiveDates == {d \in LocalDates : DateTotal(d) > 0}
Latest(S) == CHOOSE x \in S : \A y \in S : y <= x

(* C2 (as claimed): whenever the requested local date has at least one     *)
(* reading, the result reports that date and its total; another date is    *)
(* reported only when the requested date has no reading.                   *)
C2_RequestedDateReported ==
    Queried("shifted") =>
        \A off \in OffsetDays :
            ReadingsOn(RequestedDate(off)) # {} =>
                /\ productionData.mostRecentDayDate = Num(RequestedDate(off))
                /\ productionData.mostRecentDayTotal =
                       Num(DateTotal(RequestedDate(off)))

(* C2 (amended): whenever the readings of the requested local date sum to  *)
(* a positive total and no later date has a positive total, the result     *)
(* reports that date and its total; another date, or none, is reported     *)
(* only when the requested date has no positive total (no reading, or      *)
(* readings summing to 0 or less) or a later date has one.                 *)
C2_PositiveRequestedDateReported ==
    Queried("shifted") =>
        \A off \in OffsetDays :
            LET req == RequestedDate(off)
                wins == /\ DateTotal(req) > 0
                        /\ \A d \in PositiveDates : d <= req
            IN /\ wins =>
                    /\ productionData.mostRecentDayDate = Num(req)
                    /\ productionData.mostRecentDayTotal = Num(DateTotal(req))
               /\ productionData.mostRecentDayDate # Num(req) => ~wins

\* yesterday and today both have production; asked for today, today is
\* reported with its total
C2_Witness ==
    /\ Queried("shifted")
    /\ DateTotal(ShiftedToday) > 0
    /\ DateTotal(ShiftedToday - 1) > 0
    /\ productionData.mostRecentDayDate = Num(ShiftedToday)
    /\ productionData.mostRecentDayTotal = Num(DateTotal(ShiftedToday))

(* C3 (as claimed): when the requested date has no readings, the reported  *)
(* date is the closest date strictly earlier than it that has readings     *)
(* with a nonzero total: never a later date, never an empty one.           *)
C3_ClosestEarlierNonzero ==
    Queried("shifted") =>
        \A off \in OffsetDays :
            LET req == RequestedDate(off)
                earlier == {d \in LocalDates : d < req /\ DateTotal(d) # 0}
            IN ReadingsOn(req) = {} =>
                productionData.mostRecentDayDate =
                    IF earlier = {} THEN Null ELSE Num(Latest(earlier))

(* C3 (amended): when the requested date has no readings, the reported     *)
(* date is the latest of all dates whose total is positive, which may lie  *)
(* after the requested date; when no date after the requested one has a    *)
(* positive total, it is the closest date strictly earlier than the        *)
(* requested one whose total is positive. A date without readings, or with *)
(* a total of 0 or less, is never reported.                                *)
C3_LatestPositiveDate ==
    Queried("shifted") =>
        \A off \in OffsetDays :
            LET req == RequestedDate(off)
                earlier == {d \in PositiveDates : d < req}
            IN ReadingsOn(req) = {} =>
                /\ productionData.mostRecentDayDate =
                       IF PositiveDates = {} THEN Null
                       ELSE Num(Latest(PositiveDates))
                /\ (earlier # {} /\ \A d \in PositiveDates : d < req) =>
                       productionData.mostRecentDayDate = Num(Latest(earlier))
                /\ ~productionData.mostRecentDayDate.isNull =>
                       DateTotal(productionData.mostRecentDayDate.num) > 0

\* today is empty, yesterday's readings sum to less than 0, the day before
\* has production: the day before is reported
C3_Witness ==
    /\ Queried("shifted")
    /\ ReadingsOn(ShiftedToday) = {}
    /\ DateTotal(ShiftedToday - 1) < 0
    /\ DateTotal(ShiftedToday - 2) > 0
    /\ productionData.mostRecentDayDate = Num(ShiftedToday - 2)

----------------------------------------------------------------------------
\* the data step has returned for a table that holds no reading
EmptyStore ==
    /\ variant \in {"shifted", "trailing"}
    /\ db.file = "ok" /\ db.rows = <<>>
    /\ pc \in {"send", "catch", "finally", "done"}

\* the total of the result, whichever field carries it
ResultTotal ==
    IF variant = "trailing" THEN productionData.yesterdayTotalKwh
    ELSE productionData.mostRecentDayTotal

AllAttemptsAreFailure ==
    \A i \in DOMAIN attempts : attempts[i].msg = FailureMessage

(* C5 (as claimed): when the store holds no readings, in every window mode *)
(* the result is empty with total 0 and count 0, and the message handed to *)
(* the transport is exactly "Failed to get solar production data".         *)
C5_EmptyStoreZeroTotal ==
    EmptyStore =>
        /\ ResultTotal = Num(0)
        /\ productionData.recordsCount = Num(0)
        /\ message = FailureMessage
        /\ AllAttemptsAreFailure

(* C5 (amended): when the store holds no readings, the result has count 0  *)
(* and its total is 0 in TrailingHours mode and null (no total at all) in  *)
(* CalendarDayShifted mode, with no date; in both modes the message handed *)
(* to the transport is exactly "Failed to get solar production data".      *)
C5_EmptyStoreFailureMessage ==
    EmptyStore =>
        /\ ResultTotal = IF variant = "trailing" THEN Num(0) ELSE Null
        /\ productionData.mostRecentDayDate = Null
        /\ productionData.recordsCount = Num(0)
        /\ message = FailureMessage
        /\ AllAttemptsAreFailure

\* the failure message went out for an empty table, in the shifted mode
C5_Witness ==
    /\ EmptyStore
    /\ variant = "shifted"
    /\ pc = "done"
    /\ attempts = <<[msg |-> FailureMessage, ok |-> TRUE]>>

----------------------------------------------------------------------------
PCs == {"runExtractor", "getData", "format", "send", "catch", "finally", "done"}

----------------------------------------------------------------------------
\* the extractor has run and the data step is over
Retrieved == pc \notin {"runExtractor", "getData"} /\ threw # "extractor"

SourceMissing ==
    \/ variant \in {"shifted", "trailing"} /\ db.file = "absent"
    \/ variant = "json" /\ metric.file \in {"absent", "invalid"}

SourceCorrupt ==
    variant \in {"shifted", "trailing"} /\ db.file \in {"unreadable", "notable"}

(* C8 (as claimed): when the data source is missing or corrupt (database   *)
(* file absent, unreadable or without the table; metric file absent or not *)
(* valid JSON) the read step returns an empty or null result and never     *)
(* raises to its caller.                                                   *)
C8_NeverRaises ==
    (Retrieved /\ (SourceMissing \/ SourceCorrupt)) =>
        /\ threw = "none"
        /\ productionData = NullData

(* C8 (amended): when the database file is absent, or the metric file is   *)
(* absent or not valid JSON, the read step returns null and does not       *)
(* raise; when the database file is there but cannot be read or lacks the  *)
(* table, getProductionData raises to its caller, which catches the        *)
(* exception and attempts to send only the failure message.                *)
C8_MissingNullCorruptRaises ==
    /\ (Retrieved /\ SourceMissing) =>
        /\ threw = "none"
        /\ productionData = NullData
        /\ pc \in {"finally", "done"} => attempts[1].msg = FailureMessage
    /\ (Retrieved /\ SourceCorrupt) =>
        /\ threw = "retrieval"
        /\ AllAttemptsAreFailure

\* a metric file that is not valid JSON was read as null; the failure
\* message was sent
C8_Witness ==
    /\ variant = "json"
    /\ metric.file = "invalid"
    /\ pc = "done"
    /\ threw = "none"
    /\ productionData = NullData
    /\ attempts = <<[msg |-> FailureMessage, ok |-> TRUE]>>

----------------------------------------------------------------------------
Delivered == {i \in DOMAIN attempts : attempts[i].ok}

(* C10: once the config file has been written, every path through the     *)
(* main routine ends with one deletion attempt on it, made only after the  *)
(* last send attempt of the run, and at most one message is delivered per  *)
(* run.                                                                    *)
C10_CleanupAfterLastSend ==
    /\ [](pc = "done" => unlinks = 1)
    /\ [](Cardinality(Delivered) <= 1)
    /\ [][unlinks' # unlinks => pc' = "done" /\ attempts' = attempts]_vars
    /\ [][unlinks > 0 => attempts' = attempts]_vars

\* the send failed, the failure message went out, then the file was deleted
C10_Witness ==
    /\ pc = "done"
    /\ Len(attempts) = 2
    /\ ~attempts[1].ok /\ attempts[2].ok
    /\ unlinks = 1
    /\ configFile = "deleted"

====
